---- MODULE Spec2Model ----
(***************************************************************************)
(* State-machine model of the Streamlit chat front ends src/app.py and     *)
(* src/front11.py: the session state (messages, session_id), the script    *)
(* runs Streamlit starts on every user interaction, the turn cycle driven  *)
(* by st.chat_input, the sidebar / admin buttons and make_api_request.     *)
(*                                                                         *)
(* A Python str that the code inspects character by character (the SQL     *)
(* text, the prompt) is a tuple of one-character strings; a str that the   *)
(* code only builds, stores and displays is a TLA+ string.  Python None    *)
(* and JSON null are the JSON value of type "null".  uuid.uuid4() is       *)
(* modelled as collision free: each call returns a value never returned    *)
(* before.                                                                 *)
(***************************************************************************)
EXTENDS Integers, Sequences, FiniteSets, TLC

\* ------------------------------------------------------------------ bounds
MaxTurns == 4      \* a chat submission is accepted while two more turns fit
MaxIds == 3        \* number of uuid4() draws explored

\* ------------------------------------------------------- python primitives
LowerLetters == <<"a","b","c","d","e","f","g","h","i","j","k","l","m",
                  "n","o","p","q","r","s","t","u","v","w","x","y","z">>
UpperLetters == <<"A","B","C","D","E","F","G","H","I","J","K","L","M",
                  "N","O","P","Q","R","S","T","U","V","W","X","Y","Z">>

\* str.upper() on one character
UpperChar(c) ==
  IF \E i \in 1..26 : LowerLetters[i] = c
    THEN UpperLetters[CHOOSE i \in 1..26 : LowerLetters[i] = c]
    ELSE c

\* str.upper()
Upper(s) == IF Len(s) = 0 THEN <<>> ELSE [i \in 1..Len(s) |-> UpperChar(s[i])]

\* the `in` operator on two str values: needle in hay
StrIn(needle, hay) ==
  \E i \in 0..(Len(hay) - Len(needle)) :
     SubSeq(hay, i + 1, i + Len(needle)) = needle

\* the str value with the given characters, as a displayable text
RECURSIVE Str(_)
Str(chars) == IF Len(chars) = 0 THEN "" ELSE Head(chars) \o Str(Tail(chars))

\* Python None / JSON null, and the JSON values a response body can hold
NoStr  == [none |-> TRUE, s |-> <<>>]
SomeStr(s) == [none |-> FALSE, s |-> s]
NoList == [none |-> TRUE, rows |-> <<>>]
SomeList(rows) == [none |-> FALSE, rows |-> rows]

PyNone == [ty |-> "null", keys |-> {}, sql_query |-> NoStr, results |-> NoList,
           documents_added |-> 0, len |-> 0]
JsonList(n) == [PyNone EXCEPT !.ty = "list", !.len = n]
JsonDict(keys, sql, results, docs) ==
  [ty |-> "dict", keys |-> keys,
   sql_query |-> IF "sql_query" \in keys THEN sql ELSE NoStr,
   results |-> IF "results" \in keys THEN results ELSE NoList,
   documents_added |-> IF "documents_added" \in keys THEN docs ELSE 0,
   len |-> Cardinality(keys)]

\* bool(x) for a str given by its characters
TruthyChars(s) == Len(s) > 0
\* bool(x) for an optional str (None is falsy, "" is falsy)
TruthyOptStr(o) == ~o.none /\ Len(o.s) > 0
\* bool(x) for an optional list (None is falsy, [] is falsy)
TruthyOptList(o) == ~o.none /\ Len(o.rows) > 0
\* bool(x) for a JSON value (None, {} and [] are falsy)
TruthyJson(j) == j.ty # "null" /\ j.len > 0
\* bool(x) for a displayable text
TruthyText(t) == t # ""

\* --------------------------------------------------------------- constants
AppBackendUrl == "http://15.235.9.166:5002"
Front11BackendUrl == "http://15.235.9.166:5010"
BACKEND_BASE_URL(v) == IF v = "app" THEN AppBackendUrl ELSE Front11BackendUrl
QUERY_URL(v) == BACKEND_BASE_URL(v) \o "/query"
DISCOVER_CONTENT_URL(v) == BACKEND_BASE_URL(v) \o "/discover-content"
HEALTH_CHECK_URL(v) == BACKEND_BASE_URL(v) \o "/"

\* ------------------------------------------------------------ make_api_request
NoJson == [none |-> TRUE, query |-> <<>>, session_id |-> ""]
QueryPayload(prompt, sid) == [none |-> FALSE, query |-> prompt, session_id |-> sid]
NoRequest == [url |-> "", method |-> "", json |-> NoJson]

\* Request with the json= argument left out of requests.post
Request_NoBody(url, method, json_data) ==
  [url |-> url, method |-> method, json |-> NoJson]

\* the request make_api_request puts on the wire: the json body only on POST
Request(url, method, json_data) ==
  IF method = "POST"
    THEN [url |-> url, method |-> "POST", json |-> json_data]
    ELSE [url |-> url, method |-> "GET", json |-> NoJson]

NoBody == [is_json |-> FALSE, is_dict |-> FALSE, keys |-> {}, error |-> "",
           details |-> "", text |-> ""]
\* what the HTTP exchange produced:
\*   ok            2xx whose body parses as JSON (json)
\*   ok_not_json   2xx whose body is not JSON: response.json() raises
\*   http          non-2xx: raise_for_status() raises HTTPError (body)
\*   connection    requests.exceptions.ConnectionError (connection refused)
\*   connect_timeout  requests.exceptions.ConnectTimeout, which is both a
\*                 ConnectionError and a Timeout
\*   read_timeout  requests.exceptions.ReadTimeout, not a ConnectionError
Outcome(kind, json, body) == [kind |-> kind, json |-> json, body |-> body]

\* str(http_err)
HttpErrStr(url) == "500 Server Error: INTERNAL SERVER ERROR for url: " \o url
NoText == [none |-> TRUE, text |-> ""]
SomeText(t) == [none |-> FALSE, text |-> t]

\* dict.get(key, default) on the parsed error body
BodyGet(body, key, default) ==
  IF key \in body.keys THEN (IF key = "error" THEN body.error ELSE body.details)
  ELSE default

\* the except HTTPError branch
HttpErrorMessage(v, url, body) ==
  IF body.is_json /\ body.is_dict
    THEN BodyGet(body, "error", "An HTTP error occurred") \o ": "
           \o BodyGet(body, "details", HttpErrStr(url))
    ELSE IF v = "app"
      THEN "An HTTP error occurred: " \o body.text
      ELSE "An HTTP error occurred: " \o HttpErrStr(url)

ConnectionErrorMessage(v) ==
  IF v = "app"
    THEN "Connection Error: Backend is unreachable."
    ELSE "Connection Error: Could not connect to the backend at "
           \o BACKEND_BASE_URL(v) \o ". Is it running?"

\* str(e) of the exceptions that reach `except Exception`
ExceptionStr(out) ==
  IF out.kind = "ok_not_json"
    THEN "Expecting value: line 1 column 1 (char 0)"
    ELSE "Read timed out. (read timeout=60)"

\* the (data, error) pair make_api_request returns for an exchange; branch
\* names the return statement taken: "try", or the except clause
\* ("HTTPError", "ConnectionError", "Exception")
make_api_request(v, url, out) ==
  CASE out.kind = "ok" -> [data |-> out.json, error |-> NoText, branch |-> "try"]
    [] out.kind = "http" ->
         [data |-> PyNone, error |-> SomeText(HttpErrorMessage(v, url, out.body)),
          branch |-> "HTTPError"]
    [] out.kind \in {"connection", "connect_timeout"} ->
         [data |-> PyNone, error |-> SomeText(ConnectionErrorMessage(v)),
          branch |-> "ConnectionError"]
    [] OTHER ->
         [data |-> PyNone,
          error |-> SomeText("An unexpected error occurred: " \o ExceptionStr(out)),
          branch |-> "Exception"]

\* `if error:` on the returned pair
TruthyError(e) == ~e.none /\ TruthyText(e.text)

\* ------------------------------------------------------------------- pandas
EmptyDataFrame == [index |-> 0, columns |-> <<>>, cat |-> <<>>, num |-> <<>>]
\* pd.DataFrame(list of row dicts): column-major storage of the rows
DataFrame(rows) ==
  IF Len(rows) = 0 THEN EmptyDataFrame
  ELSE [index |-> Len(rows), columns |-> <<"cat", "num">>,
        cat |-> [i \in 1..Len(rows) |-> rows[i].cat],
        num |-> [i \in 1..Len(rows) |-> rows[i].num]]
\* the rows a DataFrame displays (df.to_dict("records"))
Records(df) ==
  IF df.index = 0 THEN <<>>
  ELSE [i \in 1..df.index |-> [cat |-> df.cat[i], num |-> df.num[i]]]

\* ------------------------------------------------------------ session state
generate_session_id(u) == "st-session-" \o ToString(u)
\* uuid.uuid4(): the next value never drawn before
Uuid4(ctr) == ctr + 1

\* a turn of st.session_state.messages.  shape tells the dict's layout:
\*   "text"         {"role", "content": str}
\*   "content_dict" {"role", "content": {"summary", "sql", "df"}}   (app.py)
\*   "sql_df"       {"role", "content": str, "sql", "df"}           (front11.py)
Turn(role, shape, text, sql, df) ==
  [role |-> role, shape |-> shape, content |-> text, sql |-> sql, df |-> df]
UserTurn(prompt) == Turn("user", "text", Str(prompt), NoStr, EmptyDataFrame)
ErrorTurn(error) == Turn("assistant", "text", error, NoStr, EmptyDataFrame)

\* AppendTurn as list.insert(0, turn)
AppendTurn_Prepend(msgs, turn) == <<turn>> \o msgs

\* list.append
AppendTurn(msgs, turn) == Append(msgs, turn)

\* --------------------------------------------------------------- turn cycle
SELECT == <<"S","E","L","E","C","T">>

\* (sql_query or "")
OrEmpty(sql) == IF TruthyOptStr(sql) THEN sql.s ELSE <<>>

FoundText(n) == "I found " \o ToString(n) \o " results."
AppNoResultsText == "The query ran successfully, but returned no results."
Front11NoResultsText == "I ran the query successfully, but it returned no results."
Front11NoQueryText == "I was unable to generate a SQL query for your request."

\* Summary with the "no results" test not looking at results_list
Summary_IgnoresResults(v, sql_query, results_list) ==
  IF StrIn(SELECT, Upper(OrEmpty(sql_query)))
    THEN (IF v = "app" THEN AppNoResultsText ELSE Front11NoResultsText)
    ELSE IF v # "app" /\ ~TruthyOptStr(sql_query)
      THEN Front11NoQueryText
      ELSE FoundText(Len(results_list.rows))

\* Summary with the SELECT test done without .upper()
Summary_CaseSensitive(v, sql_query, results_list) ==
  IF ~TruthyOptList(results_list) /\ StrIn(SELECT, OrEmpty(sql_query))
    THEN (IF v = "app" THEN AppNoResultsText ELSE Front11NoResultsText)
    ELSE IF v # "app" /\ ~TruthyOptStr(sql_query)
      THEN Front11NoQueryText
      ELSE FoundText(Len(results_list.rows))

\* the summary text of a reply whose results_list is a list
Summary(v, sql_query, results_list) ==
  IF v = "app"
    THEN IF ~TruthyOptList(results_list) /\ StrIn(SELECT, Upper(OrEmpty(sql_query)))
           THEN AppNoResultsText
           ELSE FoundText(Len(results_list.rows))
    ELSE IF ~TruthyOptList(results_list) /\ StrIn(SELECT, Upper(OrEmpty(sql_query)))
           THEN Front11NoResultsText
           ELSE IF ~TruthyOptStr(sql_query)
             THEN Front11NoQueryText
             ELSE FoundText(Len(results_list.rows))

\* response.get("sql_query")
GetSqlQuery(response) ==
  IF "sql_query" \in response.keys THEN response.sql_query ELSE NoStr
\* response.get("results", [])
GetResults(response) ==
  IF "results" \in response.keys THEN response.results ELSE SomeList(<<>>)

\* the assistant turn the success branch stores
AssistantTurn(v, response) ==
  LET sql_query == GetSqlQuery(response)
      results_list == GetResults(response)
      df == IF TruthyOptList(results_list)
              THEN DataFrame(results_list.rows) ELSE EmptyDataFrame
  IN Turn("assistant", IF v = "app" THEN "content_dict" ELSE "sql_df",
          Summary(v, sql_query, results_list), sql_query, df)

\* HandleQueryResult whose error branch shows the error without storing it
HandleQueryResult_ErrorNotStored(v, msgs, res) ==
  IF TruthyError(res.error)
    THEN [kind |-> "error", messages |-> msgs]
  ELSE IF TruthyJson(res.data)
    THEN IF res.data.ty # "dict" \/ GetResults(res.data).none
           THEN [kind |-> "exception", messages |-> msgs]
           ELSE [kind |-> "answered",
                 messages |-> AppendTurn(msgs, AssistantTurn(v, res.data))]
  ELSE [kind |-> "no_branch", messages |-> msgs]

\* what the code after make_api_request(QUERY_URL, ...) does with the pair:
\*   "error"      the `if error:` branch appended the error text
\*   "answered"   the `elif response:` branch appended a structured turn
\*   "no_branch"  neither branch ran (error is None and response is falsy)
\*   "exception"  the `elif response:` branch raised (.get on a non-dict,
\*                len(None)) and the script run was aborted
HandleQueryResult(v, msgs, res) ==
  IF TruthyError(res.error)
    THEN [kind |-> "error", messages |-> AppendTurn(msgs, ErrorTurn(res.error.text))]
  ELSE IF TruthyJson(res.data)
    THEN IF res.data.ty # "dict" \/ GetResults(res.data).none
           THEN [kind |-> "exception", messages |-> msgs]
           ELSE [kind |-> "answered",
                 messages |-> AppendTurn(msgs, AssistantTurn(v, res.data))]
  ELSE [kind |-> "no_branch", messages |-> msgs]

\* SessionStateInit without the `not in st.session_state` guards
SessionStateInit_Unguarded(keys, msgs, sid, ctr) ==
  [keys |-> keys \cup {"messages", "session_id"},
   messages |-> <<>>, session_id |-> generate_session_id(Uuid4(ctr)),
   uuidCtr |-> Uuid4(ctr)]

\* the session state initialization block at the top of the script
SessionStateInit(keys, msgs, sid, ctr) ==
  LET m  == IF "messages" \notin keys THEN <<>> ELSE msgs
      nu == IF "session_id" \notin keys THEN Uuid4(ctr) ELSE ctr
      s  == IF "session_id" \notin keys THEN generate_session_id(nu) ELSE sid
  IN [keys |-> keys \cup {"messages", "session_id"},
      messages |-> m, session_id |-> s, uuidCtr |-> nu]

\* ResetSession that clears the transcript but keeps the session id
ResetSession_KeepsId(ctr) ==
  [messages |-> <<>>, session_id |-> generate_session_id(ctr), uuidCtr |-> ctr]

\* the "Start New Chat Session" button body, up to st.rerun()
ResetSession(ctr) ==
  LET nu == Uuid4(ctr)
  IN [messages |-> <<>>, session_id |-> generate_session_id(nu), uuidCtr |-> nu]

\* ------------------------------------------------------------------- inputs
Chars_empty == <<>>
Chars_blank == <<" ">>
Chars_hi == <<"h","i">>
Prompts == {Chars_empty, Chars_blank, Chars_hi}

SqlSelectUpper == <<"S","E","L","E","C","T"," ","1">>
SqlSelectLower == <<"s","e","l","e","c","t"," ","1">>
SqlUpdate == <<"U","P","D","A","T","E"," ","t">>
SqlValues == {NoStr, SomeStr(<<>>), SomeStr(SqlSelectUpper),
              SomeStr(SqlSelectLower), SomeStr(SqlUpdate)}

Row1 == [cat |-> "a", num |-> 1]
Row2 == [cat |-> "b", num |-> 2]
ResultValues == {NoList, SomeList(<<>>), SomeList(<<Row1>>), SomeList(<<Row1, Row2>>)}

\* JSON bodies of a 2xx reply of the query endpoint
QueryJson ==
  {PyNone, JsonList(1), JsonDict({}, NoStr, NoList, 0),
   JsonDict({"documents_added"}, NoStr, NoList, 3),
   JsonDict({"sql_query"}, SomeStr(SqlSelectUpper), NoList, 0),
   JsonDict({"results"}, NoStr, SomeList(<<Row1>>), 0)}
  \cup {JsonDict({"sql_query", "results"}, q, r, 0) : q \in SqlValues, r \in ResultValues}

\* JSON bodies of a 2xx reply of the discovery and health endpoints
AdminJson == {PyNone, JsonDict({"documents_added"}, NoStr, NoList, 3)}

\* bodies of a non-2xx reply
ErrorBodies ==
  {[is_json |-> TRUE, is_dict |-> TRUE, keys |-> {"error", "details"},
    error |-> "Query failed", details |-> "no such table", text |-> "{..}"],
   [is_json |-> TRUE, is_dict |-> TRUE, keys |-> {},
    error |-> "", details |-> "", text |-> "{}"],
   [is_json |-> TRUE, is_dict |-> FALSE, keys |-> {},
    error |-> "", details |-> "", text |-> "[]"],
   [is_json |-> FALSE, is_dict |-> FALSE, keys |-> {},
    error |-> "", details |-> "", text |-> "Bad Gateway"]}

HttpFailures == {Outcome("http", PyNone, b) : b \in ErrorBodies}
FailureOutcomes ==
  HttpFailures
  \cup {Outcome(k, PyNone, NoBody) : k \in {"ok_not_json", "connection", "read_timeout"}}
QueryOutcomes == {Outcome("ok", j, NoBody) : j \in QueryJson} \cup FailureOutcomes
AdminOutcomes ==
  {Outcome("ok", j, NoBody) : j \in AdminJson}
  \cup {Outcome("http", PyNone, b) : b \in {x \in ErrorBodies : x.is_dict /\ x.keys # {}}}
  \cup {Outcome("connection", PyNone, NoBody)}
NoOutcome == Outcome("none", PyNone, NoBody)

\* a user interaction that makes Streamlit run the script
Event(type, prompt) == [type |-> type, prompt |-> prompt]
NoEvent == Event("none", <<>>)

\* -------------------------------------------------------------------- state
VARIABLES
  variant,     \* which script is deployed: "app" or "front11"
  ss_keys,     \* the keys present in st.session_state
  messages,    \* st.session_state.messages
  session_id,  \* st.session_state.session_id ("" while the key is absent)
  uuidCtr,     \* number of uuid4() values drawn so far
  pc,          \* position of the script run: "idle" (no run), "widgets",
               \* "rerun" (st.rerun() requested), or the request it waits on:
               \* "query", "discover", "health_btn", "health"
  event,       \* the interaction served by the current script run
  inflight,    \* the request the script run is blocked on
  reply,       \* outcome of the query call of the current interaction
  cycle,       \* how the turn cycle of the current interaction ended
  notice,      \* text shown by st.error / st.success in the current run
  indicator,   \* text of the status indicator of app.py in the current run
  pre,         \* messages and session_id when the current interaction began
  queued,      \* the interaction made while the script run was blocked on a
               \* request: Streamlit's pending rerun request
  healthChecked, \* app.py: the status indicator's health request has
               \* returned at least once in this session
  call,        \* the helper function applied on its own, with its argument
  result       \* what that application returned

pureVars == <<call, result>>
vars == <<variant, ss_keys, messages, session_id, uuidCtr, pc, event, inflight,
          reply, cycle, notice, indicator, pre, queued, healthChecked, pureVars>>

NoCall == [fn |-> "none", arg |-> <<>>]
NoResult == [fn |-> "none", value |-> <<>>]

Variants == {"app", "front11"}

Init ==
  /\ variant \in Variants
  /\ ss_keys = {}
  /\ messages = <<>>
  /\ session_id = ""
  /\ uuidCtr = 0
  /\ pc = "idle"
  /\ event = NoEvent
  /\ inflight = NoRequest
  /\ reply = NoOutcome
  /\ cycle = "none"
  /\ notice = ""
  /\ indicator = ""
  /\ pre = [messages |-> <<>>, session_id |-> ""]
  /\ queued = NoEvent
  /\ healthChecked = FALSE
  /\ call = NoCall
  /\ result = NoResult

Active == {"messages", "session_id"} \subseteq ss_keys

\* the interactions the page offers
Events(v) ==
  {Event("load", <<>>), Event("discover", <<>>)}
  \cup {Event("chat", p) : p \in Prompts}
  \cup (IF v = "front11"
          THEN {Event("reset", <<>>), Event("health_btn", <<>>)} ELSE {})

\* the rest of the script after the chat input block: app.py ends with the
\* status indicator's health request, front11.py ends
EndOfScript ==
  IF variant = "app"
    THEN /\ pc' = "health"
         /\ inflight' = Request(HEALTH_CHECK_URL(variant), "GET", NoJson)
    ELSE /\ pc' = "idle"
         /\ inflight' = NoRequest

\* an uncaught exception: Streamlit shows it and the run stops
Aborted ==
  /\ pc' = "idle"
  /\ inflight' = NoRequest
  /\ notice' = "Traceback"

\* Streamlit starts a script run for a user interaction; the run executes
\* the session state initialization
ScriptRun(ev) ==
  /\ pc = "idle"
  /\ ev \in Events(variant)
  /\ ~Active => ev.type = "load"
  /\ ev.type = "chat" => Len(messages) + 2 <= MaxTurns
  /\ ev.type = "reset" => uuidCtr < MaxIds
  /\ LET s == SessionStateInit(ss_keys, messages, session_id, uuidCtr)
     IN /\ ss_keys' = s.keys
        /\ messages' = s.messages
        /\ session_id' = s.session_id
        /\ uuidCtr' = s.uuidCtr
  /\ pre' = [messages |-> messages, session_id |-> session_id]
  /\ event' = ev
  /\ pc' = "widgets"
  /\ reply' = NoOutcome
  /\ cycle' = "none"
  /\ notice' = ""
  /\ indicator' = ""
  /\ UNCHANGED <<pureVars, queued, healthChecked, variant, inflight>>

\* the run st.rerun() asked for: the script again from the top, no widget set
ScriptRerun ==
  /\ pc = "rerun"
  /\ LET s == SessionStateInit(ss_keys, messages, session_id, uuidCtr)
     IN /\ ss_keys' = s.keys
        /\ messages' = s.messages
        /\ session_id' = s.session_id
        /\ uuidCtr' = s.uuidCtr
  /\ event' = Event("rerun", event.prompt)
  /\ pc' = "widgets"
  /\ notice' = ""
  /\ indicator' = ""
  /\ UNCHANGED <<pureVars, queued, healthChecked, variant, inflight, reply, cycle, pre>>

\* a run in which no button is pressed and the chat input returns None
NoWidget ==
  /\ pc = "widgets"
  /\ event.type \in {"load", "rerun"}
  /\ EndOfScript
  /\ UNCHANGED <<pureVars, queued, healthChecked, variant, ss_keys, messages, session_id, uuidCtr, event, reply,
                 cycle, notice, indicator, pre>>

\* front11.py: "Start New Chat Session"
ResetButton ==
  /\ pc = "widgets"
  /\ event.type = "reset"
  /\ variant = "front11"
  /\ LET r == ResetSession(uuidCtr)
     IN /\ messages' = r.messages
        /\ session_id' = r.session_id
        /\ uuidCtr' = r.uuidCtr
  /\ pc' = "rerun"
  /\ UNCHANGED <<pureVars, queued, healthChecked, variant, ss_keys, event, inflight, reply, cycle, notice,
                 indicator, pre>>

\* front11.py: "Check Backend Status" sends the health request
HealthButton ==
  /\ pc = "widgets"
  /\ event.type = "health_btn"
  /\ variant = "front11"
  /\ inflight' = Request(HEALTH_CHECK_URL(variant), "GET", NoJson)
  /\ pc' = "health_btn"
  /\ UNCHANGED <<pureVars, queued, healthChecked, variant, ss_keys, messages, session_id, uuidCtr, event, reply,
                 cycle, notice, indicator, pre>>

HealthButtonReply(out) ==
  /\ pc = "health_btn"
  /\ out \in AdminOutcomes
  /\ LET res == make_api_request(variant, inflight.url, out)
     IN notice' = IF TruthyError(res.error)
                    THEN "Backend Offline: " \o res.error.text
                    ELSE "Backend is connected and running."
  /\ pc' = "idle"
  /\ inflight' = NoRequest
  /\ UNCHANGED <<pureVars, queued, healthChecked, variant, ss_keys, messages, session_id, uuidCtr, event, reply,
                 cycle, indicator, pre>>

\* "Discover/Refresh Schema" sends the discovery request, without a body
DiscoverButton ==
  /\ pc = "widgets"
  /\ event.type = "discover"
  /\ inflight' = Request(DISCOVER_CONTENT_URL(variant), "POST", NoJson)
  /\ pc' = "discover"
  /\ UNCHANGED <<pureVars, queued, healthChecked, variant, ss_keys, messages, session_id, uuidCtr, event, reply,
                 cycle, notice, indicator, pre>>

DiscoveryText(v, data) ==
  "Discovery complete! "
    \o ToString(IF "documents_added" \in data.keys THEN data.documents_added ELSE 0)
    \o (IF v = "app" THEN " documents indexed."
                     ELSE " schema documents were indexed.")

\* DiscoverReply that stores a failure as an assistant turn, as the chat does
DiscoverReply_ErrorAsTurn(out) ==
  /\ pc = "discover"
  /\ out \in AdminOutcomes
  /\ LET res == make_api_request(variant, inflight.url, out)
     IN IF TruthyError(res.error)
          THEN /\ notice' = "Discovery Failed: " \o res.error.text
               /\ messages' = AppendTurn(messages, ErrorTurn(res.error.text))
               /\ EndOfScript
          ELSE /\ messages' = messages
               /\ IF res.data.ty = "dict"
                    THEN notice' = DiscoveryText(variant, res.data) /\ EndOfScript
                    ELSE Aborted
  /\ UNCHANGED <<pureVars, queued, healthChecked, variant, ss_keys, session_id,
                 uuidCtr, event, reply, cycle, indicator, pre>>

DiscoverReply(out) ==
  /\ pc = "discover"
  /\ out \in AdminOutcomes
  /\ LET res == make_api_request(variant, inflight.url, out)
     IN IF TruthyError(res.error)
          THEN notice' = "Discovery Failed: " \o res.error.text /\ EndOfScript
          ELSE IF res.data.ty = "dict"
            THEN notice' = DiscoveryText(variant, res.data) /\ EndOfScript
            ELSE Aborted
  /\ UNCHANGED <<pureVars, queued, healthChecked, variant, ss_keys, messages, session_id, uuidCtr, event, reply,
                 cycle, indicator, pre>>

\* the chat input block up to the query request: a truthy prompt is appended
\* as the user turn and sent; otherwise the block is skipped
ChatInput ==
  /\ pc = "widgets"
  /\ event.type = "chat"
  /\ IF TruthyChars(event.prompt)
       THEN /\ messages' = AppendTurn(messages, UserTurn(event.prompt))
            /\ inflight' = Request(QUERY_URL(variant), "POST",
                                   QueryPayload(event.prompt, session_id))
            /\ pc' = "query"
            /\ cycle' = "pending"
       ELSE /\ messages' = messages
            /\ cycle' = "skipped"
            /\ EndOfScript
  /\ UNCHANGED <<pureVars, queued, healthChecked, variant, ss_keys, session_id, uuidCtr, event, reply, notice,
                 indicator, pre>>

\* the query call returns and the rest of the chat input block runs
QueryReply(out) ==
  /\ pc = "query"
  /\ queued = NoEvent
  /\ out \in QueryOutcomes
  /\ reply' = out
  /\ LET h == HandleQueryResult(variant, messages,
                                make_api_request(variant, inflight.url, out))
     IN /\ messages' = h.messages
        /\ cycle' = h.kind
        /\ CASE h.kind = "error" ->
                  /\ notice' = messages'[Len(messages')].content
                  /\ EndOfScript
             [] h.kind = "answered" ->
                  /\ pc' = "rerun"
                  /\ inflight' = NoRequest
                  /\ notice' = notice
             [] h.kind = "no_branch" ->
                  /\ notice' = notice
                  /\ EndOfScript
             [] OTHER -> Aborted
  /\ UNCHANGED <<pureVars, queued, healthChecked, variant, ss_keys, session_id, uuidCtr, event, indicator, pre>>

\* app.py: the status indicator's health request returns
HealthReply(out) ==
  /\ pc = "health"
  /\ out \in AdminOutcomes
  /\ LET res == make_api_request(variant, inflight.url, out)
     IN indicator' = IF ~TruthyError(res.error)
                       THEN "Backend Connected" ELSE "Backend Disconnected"
  /\ pc' = "idle"
  /\ healthChecked' = TRUE
  /\ inflight' = NoRequest
  /\ UNCHANGED <<pureVars, queued, variant, ss_keys, messages, session_id, uuidCtr, event, reply,
                 cycle, notice, pre>>

Next ==
  \/ \E ev \in Events(variant) : ScriptRun(ev)
  \/ ScriptRerun
  \/ NoWidget
  \/ ResetButton
  \/ HealthButton
  \/ \E out \in AdminOutcomes : HealthButtonReply(out)
  \/ DiscoverButton
  \/ \E out \in AdminOutcomes : DiscoverReply(out)
  \/ ChatInput
  \/ \E out \in QueryOutcomes : QueryReply(out)
  \/ \E out \in AdminOutcomes : HealthReply(out)

Spec == Init /\ [][Next]_vars

TypeOK ==
  /\ variant \in Variants
  /\ pc \in {"idle", "widgets", "rerun", "query", "discover", "health_btn", "health",
            "restart"}
  /\ cycle \in {"none", "pending", "skipped", "error", "answered", "no_branch",
                "exception", "interrupted"}
  /\ Len(messages) <= MaxTurns
  /\ uuidCtr <= MaxIds

\* ------------------------------------ interactions during a pending query
\* The script has no thread, lock, queue or "busy" flag of its own: while it
\* is blocked in requests.post the page stays live, and what becomes of an
\* interaction made then is Streamlit's script runner: one script thread per
\* session; the interaction is kept as a pending rerun request; the running
\* script is stopped at the next st.* call it makes, and the script is run
\* again for the pending interaction.

\* the interactions the page accepts while the query call is pending
PendingEvents(v) == {ev \in Events(v) : ev.type # "load"}

\* the user interacts while the script is blocked on the query call
SubmitWhilePending(ev) ==
  /\ pc = "query"
  /\ queued = NoEvent
  /\ ev \in PendingEvents(variant)
  /\ ev.type = "chat" => Len(messages) + 3 <= MaxTurns
  /\ ev.type = "reset" => uuidCtr < MaxIds
  /\ queued' = ev
  /\ UNCHANGED <<pureVars, healthChecked, variant, ss_keys, messages, session_id,
                 uuidCtr, pc, event, inflight, reply, cycle, notice, indicator, pre>>

\* the first st.* call after the query call, relative to the append:
\* front11.py shows the error (st.error) or the summary (st.markdown) before
\* it appends; app.py shows the error before it appends, but on success
\* appends first and then calls st.rerun()
StoppedBeforeAppend(v, kind) ==
  \/ kind = "error"
  \/ kind = "answered" /\ v = "front11"

\* QueryReplyInterrupted where a pending reset is served while the call is
\* still blocked, and the reply then lands in the new session's transcript
QueryReplyInterrupted_ResetFirst(out) ==
  /\ pc = "query"
  /\ queued # NoEvent
  /\ out \in QueryOutcomes
  /\ reply' = out
  /\ LET res == make_api_request(variant, inflight.url, out)
         r == ResetSession(uuidCtr)
     IN IF queued.type = "reset"
          THEN LET h == HandleQueryResult(variant, r.messages, res)
               IN /\ messages' = h.messages
                  /\ cycle' = h.kind
                  /\ session_id' = r.session_id
                  /\ uuidCtr' = r.uuidCtr
          ELSE LET h == HandleQueryResult(variant, messages, res)
               IN /\ IF StoppedBeforeAppend(variant, h.kind)
                       THEN messages' = messages /\ cycle' = "interrupted"
                       ELSE messages' = h.messages /\ cycle' = h.kind
                  /\ UNCHANGED <<session_id, uuidCtr>>
  /\ pc' = "restart"
  /\ inflight' = NoRequest
  /\ UNCHANGED <<pureVars, queued, healthChecked, variant, ss_keys,
                 event, notice, indicator, pre>>

\* the query call returns while a rerun request is pending
QueryReplyInterrupted(out) ==
  /\ pc = "query"
  /\ queued # NoEvent
  /\ out \in QueryOutcomes
  /\ reply' = out
  /\ LET h == HandleQueryResult(variant, messages,
                                make_api_request(variant, inflight.url, out))
     IN IF StoppedBeforeAppend(variant, h.kind)
          THEN messages' = messages /\ cycle' = "interrupted"
          ELSE messages' = h.messages /\ cycle' = h.kind
  /\ pc' = "restart"
  /\ inflight' = NoRequest
  /\ UNCHANGED <<pureVars, queued, healthChecked, variant, ss_keys, session_id,
                 uuidCtr, event, notice, indicator, pre>>

\* Streamlit runs the script again for the pending interaction
QueuedRun ==
  /\ pc = "restart"
  /\ LET s == SessionStateInit(ss_keys, messages, session_id, uuidCtr)
     IN /\ ss_keys' = s.keys
        /\ messages' = s.messages
        /\ session_id' = s.session_id
        /\ uuidCtr' = s.uuidCtr
  /\ pre' = [messages |-> messages, session_id |-> session_id]
  /\ event' = queued
  /\ queued' = NoEvent
  /\ pc' = "widgets"
  /\ reply' = NoOutcome
  /\ cycle' = "none"
  /\ notice' = ""
  /\ indicator' = ""
  /\ UNCHANGED <<pureVars, healthChecked, variant, inflight>>

NextConc ==
  \/ \E ev \in Events(variant) : ScriptRun(ev)
  \/ ScriptRerun
  \/ NoWidget
  \/ ResetButton
  \/ HealthButton
  \/ \E out \in AdminOutcomes : HealthButtonReply(out)
  \/ DiscoverButton
  \/ \E out \in AdminOutcomes : DiscoverReply(out)
  \/ ChatInput
  \/ \E out \in QueryOutcomes : QueryReply(out)
  \/ \E out \in AdminOutcomes : HealthReply(out)
  \/ \E ev \in PendingEvents(variant) : SubmitWhilePending(ev)
  \/ \E out \in QueryOutcomes : QueryReplyInterrupted(out)
  \/ QueuedRun

SpecConc == Init /\ [][NextConc]_vars

\* ------------------------------------------------------------- properties
Last(seq) == seq[Len(seq)]
IsPrefix(a, b) == Len(a) <= Len(b) /\ SubSeq(b, 1, Len(a)) = a

\* the query call of the current interaction has returned
QueryReturned == cycle \in {"error", "answered", "no_branch", "exception"}
\* the transport returned a JSON value without error
ReplySucceeded == QueryReturned /\ reply.kind = "ok"
\* the transport returned an ApiError
ReplyFailed == QueryReturned /\ reply.kind # "ok"

Whitespace == {" ", "\t", "\n"}
IsBlank(p) == \A i \in 1..Len(p) : p[i] \in Whitespace

SelectLower == <<"s","e","l","e","c","t">>
\* text contains the letters s,e,l,e,c,t in a row, each in either case
ContainsSelectAnyCase(text) ==
  \E i \in 0..(Len(text) - 6) :
     \A k \in 1..6 : text[i + k] \in {SELECT[k], SelectLower[k]}

\* the step of the "Start New Chat Session" button
IsResetStep == pc = "widgets" /\ event.type = "reset"

\* C1: for every non-empty input and every successful reply of the query
\* call, the turn cycle appends exactly two turns: the user turn with the raw
\* input, then one structured assistant turn whose rows are the reply's results.
C1_SuccessAppendsTwoTurns ==
  (ReplySucceeded /\ ~IsBlank(event.prompt)) =>
    /\ Len(messages) = Len(pre.messages) + 2
    /\ SubSeq(messages, 1, Len(pre.messages)) = pre.messages
    /\ messages[Len(messages) - 1] = UserTurn(event.prompt)
    /\ Last(messages).role = "assistant"
    /\ Last(messages).shape # "text"
    /\ Records(Last(messages).df) = GetResults(reply.json).rows

\* C2: whenever the successful reply has sql_query null or empty, the
\* assistant turn's summary is the "unable to generate a SQL query" message,
\* whatever results holds.
C2_NoQuerySummary ==
  (cycle = "answered" /\ ~TruthyOptStr(GetSqlQuery(reply.json))) =>
    Last(messages).content = Front11NoQueryText

\* C3 as stated: whenever the successful reply's results has length N > 0,
\* the summary is exactly "I found N results." with N the stored row count.
C3_FoundSummary_AsStated ==
  (cycle = "answered" /\ Len(GetResults(reply.json).rows) > 0) =>
    /\ Last(messages).content = FoundText(Len(GetResults(reply.json).rows))
    /\ Last(messages).df.index = Len(GetResults(reply.json).rows)

\* C3 amended: whenever the successful reply's results has length N > 0 and
\* its sql_query is a non-empty string, the summary is exactly
\* "I found N results." with N the number of rows stored in the turn.
C3_FoundSummary ==
  (/\ cycle = "answered"
   /\ Len(GetResults(reply.json).rows) > 0
   /\ ~GetSqlQuery(reply.json).none
   /\ Len(GetSqlQuery(reply.json).s) > 0) =>
    /\ Last(messages).content = FoundText(Len(GetResults(reply.json).rows))
    /\ Last(messages).df.index = Len(GetResults(reply.json).rows)
    /\ Len(Records(Last(messages).df)) = Len(GetResults(reply.json).rows)

C3_Witness ==
  /\ cycle = "answered"
  /\ Len(GetResults(reply.json).rows) = 2
  /\ ~GetSqlQuery(reply.json).none
  /\ GetSqlQuery(reply.json).s = SqlSelectLower
  /\ Last(messages).content = "I found 2 results."

\* C4: whenever the successful reply has empty results and a sql_query that
\* contains SELECT in any letter case, the summary is the "ran successfully
\* but returned no results" message and never "I found 0 results.".
C4_NoResultsSummary ==
  (/\ cycle = "answered"
   /\ GetResults(reply.json).rows = <<>>
   /\ ~GetSqlQuery(reply.json).none
   /\ ContainsSelectAnyCase(GetSqlQuery(reply.json).s)) =>
    /\ Last(messages).content =
         (IF variant = "app" THEN AppNoResultsText ELSE Front11NoResultsText)
    /\ Last(messages).content # "I found 0 results."

C4_Witness ==
  /\ cycle = "answered"
  /\ GetResults(reply.json).rows = <<>>
  /\ ~GetSqlQuery(reply.json).none
  /\ GetSqlQuery(reply.json).s = SqlSelectLower
  /\ Last(messages).role = "assistant"
  /\ Last(messages).sql = SomeStr(SqlSelectLower)

\* C5: a submitted input that is empty or only whitespace never appends a
\* turn and never triggers a call to the query endpoint.
C5_BlankInputIgnored ==
  (event.type = "chat" /\ IsBlank(event.prompt)) =>
    /\ messages = pre.messages
    /\ pc # "query"
    /\ inflight.url # QUERY_URL(variant)

\* C6: when the query call returns an ApiError, the turn cycle appends exactly
\* two turns, the user turn and an assistant turn whose content is the error
\* message verbatim as plain text without query or table, the script run is
\* not aborted, and when it ends a further interaction is accepted.
C6_ErrorBecomesTurn ==
  ReplyFailed =>
    /\ cycle = "error"
    /\ messages = pre.messages \o
         <<UserTurn(event.prompt),
           [role |-> "assistant", shape |-> "text",
            content |-> make_api_request(variant, QUERY_URL(variant), reply).error.text,
            sql |-> NoStr, df |-> EmptyDataFrame]>>
    /\ Last(messages).content # ""
    /\ notice # "Traceback"
    /\ Active
    /\ pc \in {"idle", "health"}
    /\ pc = "idle" => ENABLED (\E ev \in Events(variant) : ScriptRun(ev))

\* an error turn is in the transcript and a later input was answered after it
C6_Witness ==
  /\ Len(messages) = 4
  /\ messages[2].role = "assistant"
  /\ messages[2].shape = "text"
  /\ messages[2].content = ConnectionErrorMessage(variant)
  /\ cycle = "answered"
  /\ messages[4].shape # "text"
  /\ pc = "idle"

\* C7: the "Start New Chat Session" button, pressed in any state and any
\* number of times, leaves the transcript empty and a session id different
\* from the one held immediately before.
C7_ResetClearsAndRenews ==
  (event.type = "reset" /\ pc = "rerun") =>
    /\ Len(messages) = 0
    /\ session_id # pre.session_id
    /\ session_id # ""

\* the button pressed a second time, on a non-empty transcript
C7_Witness ==
  /\ event.type = "reset"
  /\ pc = "rerun"
  /\ uuidCtr >= 3
  /\ Len(pre.messages) >= 2
  /\ messages = <<>>

\* C8: except for the reset step, every step leaves the transcript before it
\* a prefix of the transcript after it: turns are only appended, never
\* changed, reordered or removed.
C8_AppendOnly ==
  [][IsResetStep \/ IsPrefix(messages, messages')]_vars

\* a second exchange was appended behind the turns of the first
C8_Witness ==
  /\ Len(messages) = 4
  /\ cycle = "answered"
  /\ SubSeq(messages, 1, 2) = pre.messages
  /\ messages[1].role = "user"
  /\ messages[2].role = "assistant"

\* C9 as stated: once Active the session id is never empty and every request
\* in flight (query, discovery, health check) carries the current session id.
C9_EveryRequestHasSessionId_AsStated ==
  Active =>
    /\ session_id # ""
    /\ inflight # NoRequest =>
         (~inflight.json.none /\ inflight.json.session_id = session_id)

\* C9 amended: once Active the session id is never empty and every query
\* request in flight carries the current session id; the discovery and health
\* requests carry no body.
C9_QueryRequestHasSessionId ==
  Active =>
    /\ session_id # ""
    /\ pc = "query" =>
         /\ inflight.url = QUERY_URL(variant)
         /\ inflight.method = "POST"
         /\ ~inflight.json.none
         /\ inflight.json.session_id = session_id
         /\ inflight.json.query = event.prompt
    /\ pc \in {"discover", "health", "health_btn"} => inflight.json.none

\* a query is in flight under the id a reset assigned
C9_Witness ==
  /\ pc = "query"
  /\ uuidCtr >= 2
  /\ session_id = generate_session_id(uuidCtr)
  /\ inflight.json.session_id = session_id
  /\ inflight.json.query = Chars_hi

\* C10: once Active, the initialization at the top of every script run leaves
\* session id and transcript unchanged, and the session id changes only in the
\* reset step.
C10_InitIdempotent ==
  [][/\ (Active /\ pc \in {"idle", "rerun"}) =>
          (messages' = messages /\ session_id' = session_id /\ ss_keys' = ss_keys)
     /\ (Active /\ session_id' # session_id) => IsResetStep]_vars

\* a script run started on an Active session with a non-empty transcript
C10_Witness ==
  /\ pc = "widgets"
  /\ event.type \in {"load", "chat", "discover", "rerun"}
  /\ Len(messages) >= 2
  /\ messages = pre.messages
  /\ session_id = pre.session_id
  /\ session_id # ""

\* the step in which the pending query call returns
IsQueryReplyStep == pc = "query" /\ pc' # "query"

\* C11: at most one query exchange per session is in flight; a submission
\* made while a query call is pending waits (or is rejected) without touching
\* the transcript, and the pending exchange is not lost: when its reply
\* arrives, the transcript is extended exactly as the turn cycle prescribes
\* for that reply, before any turn of the later submission.
C11_PendingExchangeKept ==
  [][/\ (pc = "query" /\ pc' = "query") =>
          (messages' = messages /\ inflight' = inflight)
     /\ (IsQueryReplyStep /\ (queued = NoEvent \/ (queued.type = "chat" /\ ~IsBlank(queued.prompt)))) =>
          \E out \in QueryOutcomes :
             /\ reply' = out
             /\ messages' = HandleQueryResult(
                              variant, messages,
                              make_api_request(variant, inflight.url, out)).messages]_vars

AdminPcs == {"discover", "health_btn", "health"}
\* the texts the administrative call in flight can end in
AdminStatusTexts ==
  UNION {LET res == make_api_request(variant, inflight.url, out)
         IN IF TruthyError(res.error)
              THEN {IF pc = "discover" THEN "Discovery Failed: " \o res.error.text
                    ELSE IF pc = "health_btn" THEN "Backend Offline: " \o res.error.text
                    ELSE "Backend Disconnected"}
              ELSE {IF pc = "discover"
                      THEN (IF res.data.ty = "dict"
                              THEN DiscoveryText(variant, res.data) ELSE "Traceback")
                    ELSE IF pc = "health_btn" THEN "Backend is connected and running."
                    ELSE "Backend Connected"}
         : out \in AdminOutcomes}

\* C13: schema discovery and the health check, whether their call succeeds or
\* fails, leave transcript and session id unchanged; what they receive,
\* an ApiError included, ends as inline status text (for the status
\* indicator: connected / disconnected) and never as a turn.
C13_AdminLeavesSession ==
  [][/\ event'.type \in {"discover", "health_btn"} =>
          (messages' = pre'.messages /\ session_id' = pre'.session_id)
     /\ pc \in AdminPcs =>
          /\ messages' = messages
          /\ session_id' = session_id
          /\ IF pc = "health" THEN indicator' \in AdminStatusTexts /\ notice' = notice
                              ELSE notice' \in AdminStatusTexts]_vars

\* a failed discovery ended as status text beside an untouched transcript
C13_Witness ==
  /\ event.type = "discover"
  /\ notice = "Discovery Failed: " \o ConnectionErrorMessage(variant)
  /\ Len(messages) >= 2
  /\ messages = pre.messages
  /\ session_id = pre.session_id
  /\ pc \in {"idle", "health"}

\* C18: the backend health check of the status indicator is performed once
\* per session: no health request is issued once one has been answered.
C18_HealthCheckedOnce ==
  ~(healthChecked /\ pc = "health")

\* ---------------------------------------------- the helpers on their own
\* bodies of a non-2xx reply, with each combination of the two fields
PureErrorBodies ==
  ErrorBodies
  \cup {[is_json |-> TRUE, is_dict |-> TRUE, keys |-> {"error"},
         error |-> "Query failed", details |-> "", text |-> "{.}"],
        [is_json |-> TRUE, is_dict |-> TRUE, keys |-> {"details"},
         error |-> "", details |-> "no such table", text |-> "{:}"]}
TimeoutKinds == {"connect_timeout", "read_timeout"}
PureOutcomes ==
  {Outcome("ok", j, NoBody) : j \in QueryJson \cup AdminJson}
  \cup {Outcome("http", PyNone, b) : b \in PureErrorBodies}
  \cup {Outcome(k, PyNone, NoBody) : k \in {"ok_not_json", "connection"} \cup TimeoutKinds}
PureUrls(v) == {QUERY_URL(v), DISCOVER_CONTENT_URL(v), HEALTH_CHECK_URL(v)}

mainVars == <<variant, ss_keys, messages, session_id, uuidCtr, pc, event, inflight,
              reply, cycle, notice, indicator, pre, queued, healthChecked>>

\* one call of make_api_request and the exchange it met
CallMakeApiRequest(url, out) ==
  /\ call = NoCall
  /\ url \in PureUrls(variant)
  /\ out \in PureOutcomes
  /\ call' = [fn |-> "make_api_request", arg |-> [url |-> url, out |-> out]]
  /\ result' = [fn |-> "make_api_request",
                value |-> make_api_request(variant, url, out)]
  /\ UNCHANGED mainVars

IsApiCall == call.fn = "make_api_request"

\* C14: a call makes a single attempt and each failure class has its own
\* error kind: the error of a call that timed out is of another kind than the
\* error of any failure that is not a timeout (unreachable, HTTP, unexpected).
C14_TimeoutHasOwnKind ==
  (IsApiCall /\ call.arg.out.kind \in TimeoutKinds) =>
    \A o \in PureOutcomes :
      (o.kind \notin TimeoutKinds /\ o.kind # "ok") =>
        /\ make_api_request(variant, call.arg.url, o).branch # result.value.branch
        /\ make_api_request(variant, call.arg.url, o).error # result.value.error

\* C15: on a non-2xx reply the error message is "{error}: {details}" when the
\* body is JSON with both fields, and the raw body text in every other case.
C15_HttpErrorMessage ==
  (IsApiCall /\ call.arg.out.kind = "http") =>
    LET body == call.arg.out.body
    IN result.value.error.text =
         (IF body.is_json /\ body.is_dict /\ {"error", "details"} \subseteq body.keys
            THEN body.error \o ": " \o body.details
            ELSE body.text)

\* C19: make_api_request returns exactly one of data and error: a non-null
\* data with error None, or data None with a non-empty error; a caller
\* testing `if error` / `elif response` always takes one of the two branches.
C19_ResultWellFormed ==
  IsApiCall =>
    /\ \/ (result.value.data # PyNone /\ result.value.error.none)
       \/ (result.value.data = PyNone /\ ~result.value.error.none
             /\ result.value.error.text # "")
    /\ TruthyError(result.value.error) \/ TruthyJson(result.value.data)

\* ------------------------------------------------------------------ format_sql
Digits == {"0","1","2","3","4","5","6","7","8","9"}
\* \w of the re module
IsWordChar(c) ==
  \/ \E i \in 1..26 : c = LowerLetters[i] \/ c = UpperLetters[i]
  \/ c \in Digits
  \/ c = "_"

KW_SELECT == <<"S","E","L","E","C","T">>
KW_FROM == <<"F","R","O","M">>
KW_WHERE == <<"W","H","E","R","E">>
KW_JOIN == <<"J","O","I","N">>
KW_LEFT_JOIN == <<"L","E","F","T"," ","J","O","I","N">>
KW_ON == <<"O","N">>
KW_GROUP_BY == <<"G","R","O","U","P"," ","B","Y">>
KW_ORDER_BY == <<"O","R","D","E","R"," ","B","Y">>
KW_LIMIT == <<"L","I","M","I","T">>
keywords == <<KW_SELECT, KW_FROM, KW_WHERE, KW_JOIN, KW_LEFT_JOIN, KW_ON,
              KW_GROUP_BY, KW_ORDER_BY, KW_LIMIT>>

\* rf'\b({keyword})\b' with re.IGNORECASE matches text at position i
MatchAt(text, i, keyword) ==
  /\ i + Len(keyword) - 1 <= Len(text)
  /\ \A k \in 1..Len(keyword) : UpperChar(text[i + k - 1]) = keyword[k]
  /\ i = 1 \/ ~IsWordChar(text[i - 1])
  /\ i + Len(keyword) > Len(text) \/ ~IsWordChar(text[i + Len(keyword)])

\* re.sub(pattern, f'\n{keyword}', text) from position i on: every match,
\* left to right, is replaced by a line break and the keyword as spelled in
\* the keywords list
RECURSIVE ReSub(_, _, _)
ReSub(text, i, keyword) ==
  IF i > Len(text) THEN <<>>
  ELSE IF MatchAt(text, i, keyword)
    THEN <<"\n">> \o keyword \o ReSub(text, i + Len(keyword), keyword)
    ELSE <<text[i]>> \o ReSub(text, i + 1, keyword)

\* the for loop over keywords, from the k-th keyword on
RECURSIVE SubAll(_, _)
SubAll(text, k) ==
  IF k > Len(keywords) THEN text
  ELSE SubAll(ReSub(text, 1, keywords[k]), k + 1)

\* str.strip()
RECURSIVE LStrip(_)
LStrip(text) ==
  IF Len(text) > 0 /\ Head(text) \in Whitespace THEN LStrip(Tail(text)) ELSE text
RECURSIVE RStrip(_)
RStrip(text) ==
  IF Len(text) > 0 /\ text[Len(text)] \in Whitespace
    THEN RStrip(SubSeq(text, 1, Len(text) - 1)) ELSE text
Strip(text) == RStrip(LStrip(text))

\* format_sql of an optional str (anything that is not a str gives "")
format_sql(sql_query) ==
  IF sql_query.none THEN <<>> ELSE Strip(SubAll(sql_query.s, 1))

\* the words the texts are built of
W_select == <<"s","e","l","e","c","t">>
W_FROM == <<"F","R","O","M">>
W_a == <<"a">>
W_on == <<"o","n">>
W_xon == <<"x","o","n">>
W_Limit == <<"L","i","m","i","t">>
Words == {W_select, W_FROM, W_a, W_on, W_xon, W_Limit}
MaxWords == 3

\* the words joined by single spaces
RECURSIVE JoinWords(_)
JoinWords(ws) ==
  IF Len(ws) = 0 THEN <<>>
  ELSE IF Len(ws) = 1 THEN ws[1]
  ELSE ws[1] \o <<" ">> \o JoinWords(Tail(ws))

WordSeqs == UNION {[1..n -> Words] : n \in 1..MaxWords}
SqlTexts ==
  {NoStr, SomeStr(<<" ">> \o W_select \o <<" ">>)}
  \cup {SomeStr(JoinWords(ws)) : ws \in WordSeqs}

CallFormatSql(x) ==
  /\ call = NoCall
  /\ x \in SqlTexts
  /\ call' = [fn |-> "format_sql", arg |-> x]
  /\ result' = [fn |-> "format_sql", value |-> format_sql(x)]
  /\ UNCHANGED mainVars

\* the helper returned; the next call can be made
Return ==
  /\ call # NoCall
  /\ call' = NoCall
  /\ result' = NoResult
  /\ UNCHANGED mainVars

RECURSIVE CountLineBreaks(_)
CountLineBreaks(text) ==
  IF Len(text) = 0 THEN 0
  ELSE (IF Head(text) = "\n" THEN 1 ELSE 0) + CountLineBreaks(Tail(text))
RECURSIVE WithoutLineBreaks(_)
WithoutLineBreaks(text) ==
  IF Len(text) = 0 THEN <<>>
  ELSE (IF Head(text) = "\n" THEN <<>> ELSE <<Head(text)>>)
         \o WithoutLineBreaks(Tail(text))

\* C16: format_sql is stable after one pass and content-preserving:
\* format(format(x)) has no more line breaks than format(x), and format(x) is
\* x with outer whitespace trimmed and line breaks inserted, every other
\* character (keyword letter case included) unaltered.
C16_FormatStableAndPreserving ==
  (call.fn = "format_sql" /\ ~call.arg.none) =>
    /\ CountLineBreaks(format_sql(SomeStr(result.value)))
         = CountLineBreaks(result.value)
    /\ Strip(WithoutLineBreaks(result.value)) = Strip(WithoutLineBreaks(call.arg.s))

\* ------------------------------------------------------- create_visualization
MinColumns == 2
MinDistinct == 1
MaxDistinct == 50
MaxCols == 3

\* a column of n rows with the given dtype whose values cycle through
\* `distinct` different non-null values
Column(dtype, distinct, n) ==
  [dtype |-> dtype,
   values |-> IF n = 0 THEN <<>> ELSE [i \in 1..n |-> (i - 1) % distinct]]
\* a DataFrame of n rows made of the described columns
Frame(n, kinds) ==
  [nrows |-> n,
   columns |-> IF Len(kinds) = 0 THEN <<>>
               ELSE [c \in 1..Len(kinds) |-> Column(kinds[c].dtype, kinds[c].distinct, n)]]

\* Series.nunique()
Nunique(values) == Cardinality({values[i] : i \in 1..Len(values)})

\* df.select_dtypes(include=dtypes).columns.tolist(): the positions of the
\* columns of these dtypes, in column order
RECURSIVE SelectDtypes(_, _, _)
SelectDtypes(df, dtypes, c) ==
  IF c > Len(df.columns) THEN <<>>
  ELSE (IF df.columns[c].dtype \in dtypes THEN <<c>> ELSE <<>>)
         \o SelectDtypes(df, dtypes, c + 1)

NoChart == [kind |-> "none", x |-> 0, y |-> 0]
\* px.bar(df, x=..., y=...)
BarChart(x, y) == [kind |-> "bar", x |-> x, y |-> y]

\* create_visualization with the upper limit included (<= 50)
create_visualization_UpperInclusive(df) ==
  IF df.nrows = 0 \/ Len(df.columns) = 0 \/ Len(df.columns) < MinColumns
    THEN NoChart
  ELSE LET numeric_cols == SelectDtypes(df, {"number"}, 1)
           categorical_cols == SelectDtypes(df, {"object", "category"}, 1)
       IN IF Len(numeric_cols) = 0 \/ Len(categorical_cols) = 0 THEN NoChart
          ELSE IF /\ Nunique(df.columns[categorical_cols[1]].values) > MinDistinct
                  /\ Nunique(df.columns[categorical_cols[1]].values) <= MaxDistinct
            THEN BarChart(categorical_cols[1], numeric_cols[1])
            ELSE NoChart

create_visualization(df) ==
  IF df.nrows = 0 \/ Len(df.columns) = 0 \/ Len(df.columns) < MinColumns
    THEN NoChart
  ELSE LET numeric_cols == SelectDtypes(df, {"number"}, 1)
           categorical_cols == SelectDtypes(df, {"object", "category"}, 1)
       IN IF Len(numeric_cols) = 0 \/ Len(categorical_cols) = 0 THEN NoChart
          ELSE IF /\ Nunique(df.columns[categorical_cols[1]].values) > MinDistinct
                  /\ Nunique(df.columns[categorical_cols[1]].values) < MaxDistinct
            THEN BarChart(categorical_cols[1], numeric_cols[1])
            ELSE NoChart

RowCounts == {0, 1, 2, 49, 50, 51}
ColumnKinds ==
  {[dtype |-> "number", distinct |-> 51], [dtype |-> "bool", distinct |-> 2]}
  \cup {[dtype |-> "object", distinct |-> d] : d \in {1, 2, 49, 50, 51}}
Frames ==
  {Frame(n, <<>>) : n \in RowCounts}
  \cup UNION {{Frame(n, ks) : n \in RowCounts, ks \in [1..c -> ColumnKinds]}
                : c \in 1..MaxCols}

CallCreateVisualization(df) ==
  /\ call = NoCall
  /\ df \in Frames
  /\ call' = [fn |-> "create_visualization", arg |-> df]
  /\ result' = [fn |-> "create_visualization", value |-> create_visualization(df)]
  /\ UNCHANGED mainVars

IsNumeric(col) == col.dtype = "number"
IsCategorical(col) == col.dtype \in {"object", "category"}
\* position of the first column that satisfies P
FirstNumeric(df) ==
  CHOOSE c \in 1..Len(df.columns) :
    IsNumeric(df.columns[c]) /\ \A b \in 1..(c - 1) : ~IsNumeric(df.columns[b])
FirstCategorical(df) ==
  CHOOSE c \in 1..Len(df.columns) :
    IsCategorical(df.columns[c]) /\ \A b \in 1..(c - 1) : ~IsCategorical(df.columns[b])
\* number of different values among the rows of a column
DistinctCount(col) ==
  Cardinality({v \in 0..51 : \E i \in 1..Len(col.values) : col.values[i] = v})

\* the conditions under which the claim promises a chart
ChartPromised(df) ==
  /\ df.nrows >= 1
  /\ Len(df.columns) >= 2
  /\ \E c \in 1..Len(df.columns) : IsNumeric(df.columns[c])
  /\ \E c \in 1..Len(df.columns) : IsCategorical(df.columns[c])
  /\ DistinctCount(df.columns[FirstCategorical(df)]) > 1
  /\ DistinctCount(df.columns[FirstCategorical(df)]) < 50

\* C17: create_visualization returns a bar chart (x the first categorical
\* column, y the first numeric column) exactly when the result has a row, at
\* least 2 columns, a numeric and a categorical column, and the first
\* categorical column has more than 1 and fewer than 50 distinct values; in
\* every other case (1, 50 and 51 distinct values included) it returns none.
C17_ChartExactlyWhenPromised ==
  call.fn = "create_visualization" =>
    IF ChartPromised(call.arg)
      THEN result.value =
             [kind |-> "bar", x |-> FirstCategorical(call.arg),
              y |-> FirstNumeric(call.arg)]
      ELSE result.value.kind = "none"

\* a chart over 49 distinct values whose axes are not the first two columns
C17_Witness ==
  /\ call.fn = "create_visualization"
  /\ result.value = [kind |-> "bar", x |-> 3, y |-> 2]
  /\ call.arg.nrows = 51
  /\ DistinctCount(call.arg.columns[3]) = 49

\* no chart at exactly 50 distinct values
C17_WitnessBoundary ==
  /\ call.fn = "create_visualization"
  /\ result.value.kind = "none"
  /\ Len(call.arg.columns) = 2
  /\ IsCategorical(call.arg.columns[1])
  /\ IsNumeric(call.arg.columns[2])
  /\ DistinctCount(call.arg.columns[1]) = 50

NextPure ==
  \/ \E url \in PureUrls(variant), out \in PureOutcomes : CallMakeApiRequest(url, out)
  \/ \E x \in SqlTexts : CallFormatSql(x)
  \/ \E df \in Frames : CallCreateVisualization(df)
  \/ Return

SpecPure == Init /\ [][NextPure]_vars

====
